---- MODULE Spec2Model ----
(***************************************************************************)
(* Model of beast/observationmodel/ast/make_ast_xy_list.py:                *)
(*   pick_positions_per_background, pick_positions_per_density             *)
(*   (the two map-driven routines) and pick_positions (the neighbor        *)
(*   routine).                                                             *)
(*                                                                         *)
(* Numbers.  The metric values of the map are integers; the bin            *)
(* boundaries lo + i*(hi-lo)/N with lo = min - 0.01*|min| and              *)
(* hi = max + 0.01*|max| are rationals, held as numerators over the        *)
(* common denominator 100*N.  random_sample() takes the values u/UDen,     *)
(* u in 0..UDen-1 (the half-open interval [0,1)); every coordinate is      *)
(* held in units of 1/UDen, so min + (u/UDen)*delta is UDen*min + u*delta. *)
(*                                                                         *)
(* Arrays.  The rows of xs, ys (ras, decs) are assigned once each, in      *)
(* increasing order of j.  The state holds the assignment made last:       *)
(* j and xs_j = xs[j], ys_j = ys[j]; bin_slice is the slice assignment     *)
(* bin_indices[start:stop] = bin_index made last.  Every row of the table  *)
(* is the row assigned last in some state.                                 *)
(***************************************************************************)
EXTENDS Integers, Sequences, FiniteSets, TLC

\* ------------------------------------------------------------ bounds
MaxTiles == 2
MaxBins == 2
MaxStars == 2
MaxRealize == 2
UDen == 2
MaxDraws == 2
MaxCat == 3
MaxAsts == 2
MaxSep == 1

\* ------------------------------------------------------------ constants
noise == 3

None == "None"

\* no reference image / no table / no file / no row
NoImage == [given |-> FALSE]
NoTable == [exists |-> FALSE]
NoRow == [exists |-> FALSE]
NoCatalog == [cols |-> {}, xy |-> << >>]

\* metric values a tile of the map can carry (median_bg / sourcedens)
MetricVals == {0 - 10, 0, 10}

\* column names of the input star table (opaque magnitudes)
SedCols == <<"mag1", "mag2">>

\* column names of the AST magnitude file read by pick_positions
AstCols == <<"mag1", "mag2">>

\* the tiles of the map are boxes on the sky; tile t lies at
min_ra(t) == 4 * t
max_ra(t) == 4 * t + 2
min_dec(t) == 4 * t - 4
max_dec(t) == 4 * t - 2

\* reference images: the pixel frame is a shift of the sky frame.  With this
\* one every position of tile 0 has a negative pixel coordinate, tile 1 has
\* positions of either kind, the tiles after it have none
Frames == { [given |-> TRUE, ox |-> 5, oy |-> 1] }

\* ------------------------------------------------------------ numpy
Abs(v) == IF v < 0 THEN 0 - v ELSE v

RECURSIVE SeqMin(_)
SeqMin(s) ==
  IF Len(s) = 1 THEN s[1]
  ELSE LET m == SeqMin(Tail(s)) IN IF s[1] < m THEN s[1] ELSE m

RECURSIVE SeqMax(_)
SeqMax(s) ==
  IF Len(s) = 1 THEN s[1]
  ELSE LET m == SeqMax(Tail(s)) IN IF s[1] > m THEN s[1] ELSE m

\* the values of a 0-based array as a sequence
AsSeq(a) == [k \in 1 .. Cardinality(DOMAIN a) |-> a[k - 1]]

amin(a) == SeqMin(AsSeq(a))
amax(a) == SeqMax(AsSeq(a))

\* np.linspace(start, stop, num): the num boundaries, as numerators over the
\* denominator LinDen(num); a negative num raises ValueError (see Setup)
LinDen(num) == IF num >= 2 THEN num - 1 ELSE 1
linspace(start, stop, num) ==
  [k \in 1 .. num |-> LinDen(num) * start + (k - 1) * (stop - start)]

\* np.digitize(x, bins) for non-decreasing bins, right = False: the label i
\* with bins[i-1] <= x < bins[i], i.e. the number of boundaries <= x
digitize(x, bins) == Cardinality({k \in DOMAIN bins : bins[k] <= x})

\* np.repeat(a, n): every element n times, copies adjacent
np_repeat(a, n) == [q \in 1 .. Len(a) * n |-> a[((q - 1) \div n) + 1]]

\* ------------------------------------------------------------ binning
\* lo and hi of the padded range, times 100
PadLo(vals) == 100 * amin(vals) - Abs(amin(vals))
PadHi(vals) == 100 * amax(vals) + Abs(amax(vals))

bg_bins(vals, N) == linspace(PadLo(vals), PadHi(vals), N + 1)

\* label of every tile; the value is brought to the denominator of the bins
bgbin_foreach_tile(vals, N) ==
  [t \in DOMAIN vals |->
     digitize(100 * LinDen(N + 1) * vals[t], bg_bins(vals, N))]

tiles_foreach_bgbin(vals, N) ==
  [b \in 1 .. N |-> {t \in DOMAIN vals : bgbin_foreach_tile(vals, N)[t] = b}]

\* the non-empty bins, in increasing bin order
NonEmpty(s) == s /= {}
tile_sets_of(vals, N) == SelectSeq(tiles_foreach_bgbin(vals, N), NonEmpty)

\* ------------------------------------------------------------ sampling
\* min + random_sample() * delta, in units of 1/UDen
sample(minv, delta, u) == UDen * minv + u * delta

\* wcs.all_world2pix(ra, dec, 0) of reference image f, in units of 1/UDen
all_world2pix(f, ra, dec) == <<ra - UDen * f.ox, dec - UDen * f.oy>>

\* a loop repeated only when both coordinates are negative
Rejected_both(x, y) == x < 0 /\ y < 0

\* the condition of the rejection loop: while x < 0 or y < 0
Rejected(x, y) == x < 0 \/ y < 0

\* a loop without the `break` of line 139
LeavesLoop_nobreak(wcs, x, y) == ~Rejected(x, y)

\* the loop of pick_positions_per_background is left by `break` when there is
\* no wcs, and by its condition otherwise
LeavesLoop(wcs, x, y) == ~wcs.given \/ ~Rejected(x, y)

\* columns prepended to the table, left to right (the cs list)
cs_names(wcs) ==
  IF ~wcs.given THEN <<"zeros", "ones", "RA", "DEC">>
  ELSE <<"zeros", "ones", "X", "Y">>

\* ------------------------------------------------------------ state
VARIABLES
  routine,      \* "background", "density" or "neighbor": the function called
  tile_vals,    \* the map: metric value of tile 0 .. n-1
  N_bins,       \* N_bg_bins / N_dens_bins
  Nrealize,
  chosen_seds,  \* the input star table, one entry per row
  refimage,     \* NoImage or a frame
  outfile,      \* None or a path
  catalog,      \* pick_positions: [cols, xy]
  separation,   \* pick_positions: minimum separation
  pc,           \* "start", "bin", "row", "loop", "assemble", "done", "error"
  outcome,      \* "running", "returned" or the exception raised
  tile_sets,
  Nseds_per_region,
  repeated_seds,
  bin_index,
  i,
  ndraws,       \* executions of the loop body for the row drawn last,
                \* counted up to MaxDraws
  j,            \* index of the row assigned last, -1 before the first
  xs_j, ys_j,   \* xs[j], ys[j] (ras[j], decs[j]) as assigned
  bin_slice,    \* [start, stop, val]: bin_indices[start:stop] = val
  x_positions,  \* pick_positions: the positions kept by the boundary filter
  y_positions,
  ind,          \* pick_positions: anchor index drawn for every AST row
  out_table,    \* the table returned, NoTable before
  file,         \* content of the file at outfile / filename
  file_read     \* whether the file at filename has been read

inputs == <<routine, tile_vals, N_bins, Nrealize, chosen_seds, refimage,
            outfile, catalog, separation>>
locals == <<tile_sets, Nseds_per_region, repeated_seds, bin_index, i,
            ndraws, j, xs_j, ys_j, bin_slice>>
nbr_locals == <<x_positions, y_positions, ind>>
vars == <<inputs, pc, outcome, locals, nbr_locals, out_table, file, file_read>>

MapRoutines == {"background", "density"}

\* a draw among all the tiles of the map
choice_anytile(tile_set) == DOMAIN tile_vals

\* the tiles np.random.choice(tile_set) can return
choice(tile_set) == tile_set

NoFile == [exists |-> FALSE]

InitMap ==
  /\ routine \in MapRoutines
  /\ \E n \in 1 .. MaxTiles : tile_vals \in [0 .. n - 1 -> MetricVals]
  /\ N_bins \in (0 - 2) .. MaxBins
  /\ Nrealize \in 0 .. MaxRealize
  /\ \E M \in 0 .. MaxStars : chosen_seds = [s \in 1 .. M |-> s]
  /\ refimage \in {NoImage} \cup Frames
  /\ outfile \in {None, "outfile"}
  /\ catalog = NoCatalog
  /\ separation = 0
  /\ pc = "start"
  /\ outcome = "running"
  /\ tile_sets = << >>
  /\ Nseds_per_region = 0
  /\ repeated_seds = << >>
  /\ bin_index = 0
  /\ i = 0
  /\ ndraws = 0
  /\ j = 0 - 1
  /\ xs_j = 0
  /\ ys_j = 0
  /\ bin_slice = [start |-> 0, stop |-> 0, val |-> 0]
  /\ x_positions = << >>
  /\ y_positions = << >>
  /\ ind = << >>
  /\ out_table = NoTable
  /\ file = NoFile
  /\ file_read = FALSE

\* ------------------------------------------------------------ map-driven
\* lines 70-118 / 318-361: bins, tile sets, replicated table, zeroed arrays.
\* np.linspace raises ValueError for a negative number of samples; with no
\* sample at all (N_bins = -1) np.digitize raises ValueError ("bins must have
\* non-zero length") or labels every tile 0, depending on the numpy release
Setup ==
  /\ routine \in MapRoutines
  /\ pc = "start"
  /\ \E raises \in IF N_bins + 1 < 0 THEN {TRUE}
                   ELSE IF N_bins + 1 = 0 THEN {TRUE, FALSE} ELSE {FALSE} :
       IF raises
       THEN /\ pc' = "error"
            /\ outcome' = "ValueError"
            /\ UNCHANGED locals
       ELSE /\ tile_sets' = tile_sets_of(tile_vals, N_bins)
            /\ Nseds_per_region' = Len(np_repeat(chosen_seds, Nrealize))
            /\ repeated_seds' =
                 np_repeat(np_repeat(chosen_seds, Nrealize), Len(tile_sets'))
            /\ bin_index' = 0
            /\ pc' = IF Len(tile_sets') = 0 THEN "assemble" ELSE "bin"
            /\ UNCHANGED <<outcome, i, ndraws, j, xs_j, ys_j, bin_slice>>
  /\ UNCHANGED <<inputs, nbr_locals, out_table, file, file_read>>

\* lines 120-124 / 362-366: next bin group; bin_indices[start:stop] = bin_index
\* and the head of `for i in range(Nseds_per_region)`: with no row in a group
\* the body is not run and the loop over the bins goes on
BinStart ==
  /\ pc = "bin"
  /\ LET start == bin_index * Nseds_per_region
         stop == start + Nseds_per_region
     IN  bin_slice' = [start |-> start, stop |-> stop, val |-> bin_index]
  /\ i' = 0
  /\ IF Nseds_per_region > 0
     THEN /\ pc' = "row"
          /\ bin_index' = bin_index
     ELSE /\ bin_index' = bin_index + 1
          /\ pc' = IF bin_index + 1 < Len(tile_sets) THEN "bin" ELSE "assemble"
  /\ UNCHANGED <<inputs, outcome, tile_sets, Nseds_per_region, repeated_seds,
                 ndraws, j, xs_j, ys_j, nbr_locals, out_table, file, file_read>>

\* after row i of the current bin group: next row, next bin or the end
Advance ==
  IF i + 1 < Nseds_per_region
  THEN /\ i' = i + 1
       /\ bin_index' = bin_index
       /\ pc' = "row"
  ELSE /\ i' = i
       /\ bin_index' = bin_index + 1
       /\ pc' = IF bin_index + 1 < Len(tile_sets) THEN "bin" ELSE "assemble"

\* lines 124-145: one execution of the body of the rejection loop for row i
\* (pc = "row": the first one, x = y = -1; pc = "loop": after a rejected
\* draw) and, when the loop is left, xs[j] = x and ys[j] = y
BgDraw ==
  /\ routine = "background"
  /\ pc \in {"row", "loop"}
  /\ ndraws' = IF pc = "row" THEN 1
               ELSE IF ndraws < MaxDraws THEN ndraws + 1 ELSE ndraws
  /\ \E tile \in choice(tile_sets[bin_index + 1]), u1 \in 0 .. UDen - 1,
        u2 \in 0 .. UDen - 1 :
       LET ra == sample(min_ra(tile), max_ra(tile) - min_ra(tile), u1)
           dec == sample(min_dec(tile), max_dec(tile) - min_dec(tile), u2)
           xy == IF ~refimage.given THEN <<ra, dec>>
                 ELSE all_world2pix(refimage, ra, dec)
       IN  IF LeavesLoop(refimage, xy[1], xy[2])
           THEN /\ j' = bin_index * Nseds_per_region + i
                /\ xs_j' = xy[1]
                /\ ys_j' = xy[2]
                /\ Advance
           ELSE /\ pc' = "loop"
                /\ UNCHANGED <<j, xs_j, ys_j, i, bin_index>>
  /\ UNCHANGED <<inputs, outcome, tile_sets, Nseds_per_region, repeated_seds,
                 bin_slice, nbr_locals, out_table, file, file_read>>

\* lines 366-374: the density routine accepts the first draw
DensDraw ==
  /\ routine = "density"
  /\ pc = "row"
  /\ ndraws' = 1
  /\ \E tile \in choice(tile_sets[bin_index + 1]), u1 \in 0 .. UDen - 1,
        u2 \in 0 .. UDen - 1 :
       LET ra == sample(min_ra(tile), max_ra(tile) - min_ra(tile), u1)
           dec == sample(min_dec(tile), max_dec(tile) - min_dec(tile), u2)
       IN  /\ j' = bin_index * Nseds_per_region + i
           /\ xs_j' = ra
           /\ ys_j' = dec
  /\ Advance
  /\ UNCHANGED <<inputs, outcome, tile_sets, Nseds_per_region, repeated_seds,
                 bin_slice, nbr_locals, out_table, file, file_read>>

\* row r (0-based) of the table: the prepended columns, then the star columns
TableRow(r, c1, c2) ==
  IF r + 1 \in DOMAIN repeated_seds
  THEN [index |-> r, zeros |-> 0, ones |-> 1, coord1 |-> c1, coord2 |-> c2,
        sed |-> repeated_seds[r + 1]]
  ELSE NoRow

\* lines 148-168 / 376-399: prepend the columns, write the file, return;
\* the table is held by its column names, its star column and row j
Assemble ==
  /\ pc = "assemble"
  /\ LET conv == IF routine = "density" /\ refimage.given
                 THEN all_world2pix(refimage, xs_j, ys_j)
                 ELSE <<xs_j, ys_j>>
         t == [colnames |-> cs_names(refimage) \o SedCols,
               nrows |-> Len(repeated_seds),
               seds |-> repeated_seds,
               row |-> TableRow(j, conv[1], conv[2])]
     IN  /\ out_table' = t
         /\ file' = IF outfile /= None THEN t ELSE file
  /\ pc' = "done"
  /\ outcome' = "returned"
  /\ UNCHANGED <<inputs, locals, nbr_locals, file_read>>

\* ------------------------------------------------------------ neighbor
\* positions (X, Y) a catalog star can have, and the position columns a
\* catalog can carry (Y, y, DEC, dec come with X, x, RA, ra)
PosVals == {<<0, 0>>, <<3, 4>>, <<4, 4>>, <<8, 8>>}
ColNames == {"X", "x", "RA", "ra"}

\* the AST magnitude file written by pick_models, n rows
AstFile(n) ==
  [colnames |-> AstCols, nrows |-> n, rows |-> [k \in 1 .. n |-> [ast |-> k]]]

\* Python's `a or b` with a string a, taken as a condition: a non-empty
\* string is true, and b is looked at only when a is empty
PyOr(a, b) == IF a /= "" THEN TRUE ELSE b

\* lines 199-221: the positions taken from the catalog.  raised: the
\* exception raised on these lines ("" if none); bound: whether x_positions
\* and y_positions have been assigned when line 223 is reached
catalog_positions(cat, img) ==
  LET colnames == cat.cols
      xcol == [k \in DOMAIN cat.xy |-> cat.xy[k][1]]
      ycol == [k \in DOMAIN cat.xy |-> cat.xy[k][2]]
  IN  IF PyOr("X", "x" \in colnames)
      THEN IF "X" \in colnames \/ "x" \in colnames
           THEN [raised |-> "", bound |-> TRUE, x |-> xcol, y |-> ycol]
           ELSE [raised |-> "", bound |-> FALSE, x |-> << >>, y |-> << >>]
      ELSE IF ~img.given
           THEN [raised |-> "RuntimeError: no reference image",
                 bound |-> FALSE, x |-> << >>, y |-> << >>]
           ELSE IF ~PyOr("RA", "ra" \in colnames)
           THEN [raised |-> "RuntimeError: no coordinates",
                 bound |-> FALSE, x |-> << >>, y |-> << >>]
           ELSE IF "RA" \in colnames \/ "ra" \in colnames
           THEN [raised |-> "", bound |-> TRUE,
                 x |-> [k \in DOMAIN xcol |->
                          all_world2pix(img, UDen * xcol[k], UDen * ycol[k])[1] \div UDen],
                 y |-> [k \in DOMAIN ycol |->
                          all_world2pix(img, UDen * xcol[k], UDen * ycol[k])[2] \div UDen]]
           ELSE [raised |-> "UnboundLocalError", bound |-> FALSE,
                 x |-> << >>, y |-> << >>]

\* a filter that keeps the stars on the edge of the margin
keep_closed(xp, yp, sep) ==
  {k \in DOMAIN xp :
     /\ xp[k] >= SeqMin(xp) + sep + noise
     /\ xp[k] <= SeqMax(xp) - sep - noise
     /\ yp[k] >= SeqMin(yp) + sep + noise
     /\ yp[k] <= SeqMax(yp) - sep - noise}

\* lines 229-230: the rows kept by the boundary filter
keep(xp, yp, sep) ==
  {k \in DOMAIN xp :
     /\ xp[k] > SeqMin(xp) + sep + noise
     /\ xp[k] < SeqMax(xp) - sep - noise
     /\ yp[k] > SeqMin(yp) + sep + noise
     /\ yp[k] < SeqMax(yp) - sep - noise}

\* a[mask]: the entries of a at the indices in mask, in their order
Masked(a, mask) ==
  [m \in 1 .. Cardinality(mask) |->
     a[CHOOSE k \in mask : Cardinality({k2 \in mask : k2 < k}) = m - 1]]

\* lines 236-237: the values (np.random.random() * ncat).astype('int') takes
RandInd(ncat) == IF ncat = 0 THEN {0} ELSE 0 .. ncat - 1

\* (cos theta, sin theta) for theta = U * 2 pi, U in {1/4, 1/2}
Dirs == {<<0, 1>>, <<0 - 1, 0>>}

\* the four columns added behind the columns of the file
add_columns_behind(astmags, new_x, new_y) ==
  [colnames |-> astmags.colnames \o <<"zeros", "ones", "X", "Y">>,
   nrows |-> astmags.nrows,
   rows |-> [k \in DOMAIN astmags.rows |->
               [zeros |-> 0, ones |-> 1, X |-> new_x[k], Y |-> new_y[k],
                ast |-> astmags.rows[k].ast]]]

\* lines 248-257: the four columns inserted at positions 0 .. 3
add_columns(astmags, new_x, new_y) ==
  [colnames |-> <<"zeros", "ones", "X", "Y">> \o astmags.colnames,
   nrows |-> astmags.nrows,
   rows |-> [k \in DOMAIN astmags.rows |->
               [zeros |-> 0, ones |-> 1, X |-> new_x[k], Y |-> new_y[k],
                ast |-> astmags.rows[k].ast]]]

InitNbr ==
  /\ routine = "neighbor"
  /\ \E c \in SUBSET ColNames, n \in 1 .. MaxCat :
       \E p \in [1 .. n -> PosVals] : catalog = [cols |-> c, xy |-> p]
  /\ separation \in 0 .. MaxSep
  /\ refimage \in {NoImage} \cup Frames
  /\ \E n \in 0 .. MaxAsts : file = AstFile(n)
  /\ tile_vals = << >>
  /\ N_bins = 0
  /\ Nrealize = 0
  /\ chosen_seds = << >>
  /\ outfile = None
  /\ pc = "start"
  /\ outcome = "running"
  /\ tile_sets = << >>
  /\ Nseds_per_region = 0
  /\ repeated_seds = << >>
  /\ bin_index = 0
  /\ i = 0
  /\ ndraws = 0
  /\ j = 0 - 1
  /\ xs_j = 0
  /\ ys_j = 0
  /\ bin_slice = [start |-> 0, stop |-> 0, val |-> 0]
  /\ x_positions = << >>
  /\ y_positions = << >>
  /\ ind = << >>
  /\ out_table = NoTable
  /\ file_read = FALSE

\* lines 194-259: pick_positions, one call
PickPositions ==
  /\ routine = "neighbor"
  /\ pc = "start"
  /\ LET cp == catalog_positions(catalog, refimage)
         astmags == file
         n_asts == file.nrows
     IN  IF cp.raised /= ""
         THEN /\ pc' = "error"
              /\ outcome' = cp.raised
              /\ UNCHANGED <<nbr_locals, file, file_read>>
         ELSE
         /\ file_read' = TRUE
         /\ IF ~cp.bound
            THEN /\ pc' = "error"
                 /\ outcome' = "UnboundLocalError"
                 /\ UNCHANGED <<nbr_locals, file>>
            ELSE
            LET kp == keep(cp.x, cp.y, separation)
                ncat == Cardinality(kp)
            IN  /\ x_positions' = Masked(cp.x, kp)
                /\ y_positions' = Masked(cp.y, kp)
                /\ ind' \in [1 .. n_asts -> RandInd(ncat)]
                /\ IF \E k \in 1 .. n_asts : ind'[k] >= ncat
                   THEN \* line 247: index out of bounds
                        /\ pc' = "error"
                        /\ outcome' = "IndexError"
                        /\ UNCHANGED file
                   ELSE \E u \in [1 .. n_asts -> 0 .. UDen - 1],
                           d \in [1 .. n_asts -> Dirs] :
                          LET r == [k \in 1 .. n_asts |->
                                      UDen * separation + u[k] * noise]
                              new_x == [k \in 1 .. n_asts |->
                                 UDen * x_positions'[ind'[k] + 1] + r[k] * d[k][1]]
                              new_y == [k \in 1 .. n_asts |->
                                 UDen * y_positions'[ind'[k] + 1] + r[k] * d[k][2]]
                          IN  /\ file' = add_columns(astmags, new_x, new_y)
                              /\ pc' = "done"
                              /\ outcome' = "returned"
  /\ UNCHANGED <<inputs, locals, out_table>>

\* ------------------------------------------------------------ specifications
Init == InitMap \/ InitNbr

Next == Setup \/ BinStart \/ BgDraw \/ DensDraw \/ Assemble \/ PickPositions

Spec == Init /\ [][Next]_vars

\* the map-driven routines alone
NextMap == Setup \/ BinStart \/ BgDraw \/ DensDraw \/ Assemble
SpecMap == InitMap /\ [][NextMap]_vars

\* the neighbor routine alone
NextNbr == PickPositions
SpecNbr == InitNbr /\ [][NextNbr]_vars

\* the background routine alone, with the fairness of the random draws: a
\* draw that leaves the loop, possible again and again, is made in the end
BgAccept == BgDraw /\ pc' /= "loop"
\* (at most one realization, the table written to outfile: a larger Nrealize
\* only lengthens the loop over the rows, as the number of stars does)
LiveInit ==
  InitMap /\ routine = "background" /\ Nrealize <= 1 /\ outfile /= None
LiveNext == Setup \/ BinStart \/ BgDraw \/ Assemble
LiveSpec ==
  LiveInit /\ [][LiveNext]_vars /\ WF_vars(LiveNext) /\ WF_vars(BgAccept)

\* ------------------------------------------------------------ properties
MapCall == routine \in MapRoutines
SetUp == MapCall /\ pc \notin {"start", "error"}
Returned == pc = "done"

\* (x, y), in units of 1/UDen, lies in the box of tile t
InBox(t, px, py) ==
  /\ UDen * min_ra(t) <= px /\ px <= UDen * max_ra(t)
  /\ UDen * min_dec(t) <= py /\ py <= UDen * max_dec(t)

\* C1: for a map with min(v) /= max(v) and N_bins >= 1 every tile gets a
\* label in 1 .. N_bins and lies in exactly one of the per-bin tile sets.
C1_EveryTileInOneBin ==
  (SetUp /\ amin(tile_vals) /= amax(tile_vals) /\ N_bins >= 1) =>
    \A t \in DOMAIN tile_vals :
      /\ bgbin_foreach_tile(tile_vals, N_bins)[t] \in 1 .. N_bins
      /\ Cardinality({k \in DOMAIN tile_sets : t \in tile_sets[k]}) = 1

\* C2: the returned table has M * Nrealize * K rows; the k-th block of
\* M * Nrealize rows is the group of the k-th surviving bin, and in every
\* group each of the M stars occurs exactly Nrealize times, copies adjacent.
C2_GroupsHoldEveryStar ==
  (MapCall /\ Returned) =>
    LET M == Len(chosen_seds)
        K == Len(tile_sets)
        G == M * Nrealize
    IN  /\ out_table.nrows = G * K
        /\ \A k \in 0 .. K - 1 : \A s \in 1 .. M :
             LET rows == {q \in (k * G + 1) .. ((k + 1) * G) :
                            out_table.seds[q] = chosen_seds[s]}
             IN  /\ Cardinality(rows) = Nrealize
                 /\ \A q1 \in rows, q2 \in rows :
                      \A q \in q1 .. q2 : q \in rows

\* C3: without a reference image, row j of either map-driven routine lies in
\* the box of a tile of the tile set of its own bin group, j div (M*Nrealize).
C3_PositionInOwnBin ==
  (MapCall /\ ~refimage.given /\ j >= 0) =>
    LET k == j \div Nseds_per_region
    IN  /\ Nseds_per_region = Len(chosen_seds) * Nrealize
        /\ k + 1 \in DOMAIN tile_sets
        /\ \E t \in tile_sets[k + 1] : InBox(t, xs_j, ys_j)
        /\ Returned =>
             /\ out_table.row.index = j
             /\ \E t \in tile_sets[k + 1] :
                  InBox(t, out_table.row.coord1, out_table.row.coord2)

\* the case of C3: two bins, the two-tile map with metrics 0 and 10, a row of
\* the second group placed in the second tile
C3_Witness ==
  /\ routine = "density"
  /\ ~refimage.given
  /\ N_bins = 2
  /\ tile_vals = [t \in 0 .. 1 |-> 10 * t]
  /\ Returned
  /\ j >= Nseds_per_region
  /\ InBox(1, out_table.row.coord1, out_table.row.coord2)

\* C4 as amended: with a reference frame every row of the background routine
\* has both pixel coordinates >= 0; without one the first draw is taken
\* whatever its sign (the loop is never repeated).
C4_PixelsNonNegative ==
  (routine = "background") =>
    /\ (refimage.given /\ j >= 0) =>
         /\ xs_j >= 0 /\ ys_j >= 0
         /\ Returned => (out_table.row.coord1 >= 0 /\ out_table.row.coord2 >= 0)
    /\ ~refimage.given => (pc /= "loop" /\ ndraws <= 1)

\* a row accepted after at least one rejected draw, in a returned table
C4_Witness ==
  /\ routine = "background"
  /\ refimage.given
  /\ Returned
  /\ ndraws >= 2
  /\ out_table.row /= NoRow

\* C4 as stated: every row of the background routine has both coordinates
\* >= 0, with or without a reference frame.
C4_AllRowsNonNegative ==
  (routine = "background" /\ Returned /\ out_table.row /= NoRow) =>
    (out_table.row.coord1 >= 0 /\ out_table.row.coord2 >= 0)

\* C6: a map-driven call with min(v) = max(v) or N_bins < 1 fails with
\* InvalidRangeError; no table is returned and no file is written.  (Any
\* exception raised by the call is taken for the failure the claim names.)
C6_DegenerateRaises ==
  (MapCall /\ pc /= "start"
     /\ (amin(tile_vals) = amax(tile_vals) \/ N_bins < 1)) =>
    /\ outcome \in {"running", "InvalidRangeError", "ValueError"}
    /\ out_table = NoTable
    /\ file = NoFile

\* C9: the returned table has the columns zeros, ones, coord1, coord2,
\* bin_index and then the star columns; zeros = 0 and ones = 1 in every row.
C9_TableHasBinIndex ==
  (MapCall /\ Returned) =>
    /\ out_table.colnames =
         SubSeq(cs_names(refimage), 1, 4) \o <<"bin_index">> \o SedCols
    /\ out_table.row /= NoRow =>
         (out_table.row.zeros = 0 /\ out_table.row.ones = 1)

\* a position of tile t that the rejection loop accepts exists
GoodTile(t) ==
  \E u1 \in 0 .. UDen - 1, u2 \in 0 .. UDen - 1 :
    LET ra == sample(min_ra(t), max_ra(t) - min_ra(t), u1)
        dec == sample(min_dec(t), max_dec(t) - min_dec(t), u2)
        xy == all_world2pix(refimage, ra, dec)
    IN  xy[1] >= 0 /\ xy[2] >= 0
AllBinsGood == \A k \in DOMAIN tile_sets : \E t \in tile_sets[k] : GoodTile(t)

\* every bin group has at least one row to place
HasRows == Len(chosen_seds) > 0 /\ Nrealize > 0

\* C10 as amended: with a reference frame and at least one row per bin group
\* (a star table with rows, Nrealize >= 1) the background routine returns its
\* table, in the end, if and only if every surviving bin has a tile with an
\* acceptable position; otherwise it loops for ever, returns no table and
\* writes no file.  With no row per group the rejection loop is never
\* entered: no draw is made and the routine returns (an empty table) and
\* writes its file whatever the tiles are.  Without a reference frame the
\* loop body runs once per row and the routine returns.
C10_ReturnsIffRowsAcceptable ==
  /\ (SetUp /\ refimage.given /\ HasRows /\ AllBinsGood) ~> Returned
  /\ [](SetUp /\ refimage.given /\ HasRows /\ ~AllBinsGood =>
          ~Returned /\ out_table = NoTable /\ file = NoFile)
  /\ (SetUp /\ ~HasRows) ~> (Returned /\ out_table.nrows = 0 /\ file = out_table)
  /\ [](~HasRows => ndraws = 0 /\ pc \notin {"row", "loop"})
  /\ (SetUp /\ ~refimage.given) ~> Returned
  /\ [](~refimage.given => pc /= "loop" /\ ndraws <= 1)

\* the rejection loop has repeated and the table has been returned
C10_Witness ==
  /\ refimage.given
  /\ Returned
  /\ ndraws >= 2
  /\ out_table.nrows > 0

\* C10 as stated: with a reference frame the background routine returns its
\* table, in the end, if and only if every surviving bin has a tile with an
\* acceptable position; otherwise it loops for ever, returns no table and
\* writes no file.  Without a reference frame the loop body runs once per
\* row and the routine returns.
C10_ReturnsIffAcceptable ==
  /\ (SetUp /\ refimage.given /\ AllBinsGood) ~> Returned
  /\ [](SetUp /\ refimage.given /\ ~AllBinsGood =>
          ~Returned /\ out_table = NoTable /\ file = NoFile)
  /\ (SetUp /\ ~refimage.given) ~> Returned
  /\ [](~refimage.given => pc /= "loop" /\ ndraws <= 1)

\* ---- the neighbor routine
NbrCall == routine = "neighbor"
\* the call has got as far as the boundary filter of lines 229-233
FilterReached ==
  /\ NbrCall
  /\ pc /= "start"
  /\ catalog_positions(catalog, refimage).raised = ""
  /\ catalog_positions(catalog, refimage).bound
FileUntouched == file = AstFile(file.nrows)
\* the star at index a of the filtered catalog lies strictly inside the
\* margin of the unfiltered one
Interior(a) ==
  LET cp == catalog_positions(catalog, refimage)
      m == separation + noise
  IN  /\ a \in 0 .. Len(x_positions) - 1
      /\ x_positions[a + 1] > SeqMin(cp.x) + m
      /\ x_positions[a + 1] < SeqMax(cp.x) - m
      /\ y_positions[a + 1] > SeqMin(cp.y) + m
      /\ y_positions[a + 1] < SeqMax(cp.y) - m
      /\ x_positions[a + 1] /= SeqMin(cp.x)

\* C5: every catalog star used as an anchor for an AST row lies strictly
\* inside the margin separation + noise of the extent of the unfiltered
\* catalog, in X and in Y, so a star at the catalog's minimum X is never an
\* anchor; one index is drawn for every AST row, and whenever the filtered
\* catalog holds a star, or the call returns, every index drawn is a valid
\* index into the filtered catalog.
C5_AnchorsInterior ==
  FilterReached =>
    /\ Len(ind) = file.nrows
    /\ (Len(x_positions) >= 1 \/ outcome = "returned") =>
         \A k \in DOMAIN ind : Interior(ind[k])
    /\ outcome = "returned" =>
         \A k \in DOMAIN file.rows :
           LET ax == UDen * x_positions[ind[k] + 1]
               ay == UDen * y_positions[ind[k] + 1]
               lo == UDen * separation
               hi == UDen * separation + (UDen - 1) * noise
               d == Abs(file.rows[k].X - ax) + Abs(file.rows[k].Y - ay)
           IN  lo <= d /\ d <= hi

\* AST rows anchored at the one star the filter has left of the catalog
C5_Witness ==
  /\ FilterReached
  /\ outcome = "returned"
  /\ Len(ind) >= 2
  /\ Len(x_positions) = 1
  /\ Len(catalog.xy) > Len(x_positions)

\* C7: a catalog with none of X, x, RA, ra fails with
\* MissingCoordinatesError; one with sky columns alone and no reference image
\* fails with MissingReferenceImageError, in both cases before the AST file
\* is read or rewritten; one with sky columns alone and a reference image has
\* its positions converted.  (The RuntimeErrors of lines 216 and 219 are
\* taken for the two errors the claim names.)
C7_CatalogChecked ==
  (NbrCall /\ pc /= "start") =>
    LET hasPix == catalog.cols \cap {"X", "x"} /= {}
        hasSky == catalog.cols \cap {"RA", "ra"} /= {}
    IN  /\ (~hasPix /\ ~hasSky) =>
             /\ outcome \in {"MissingCoordinatesError",
                             "RuntimeError: no coordinates"}
             /\ ~file_read
             /\ FileUntouched
        /\ (~hasPix /\ hasSky /\ ~refimage.given) =>
             /\ outcome \in {"MissingReferenceImageError",
                             "RuntimeError: no reference image"}
             /\ ~file_read
             /\ FileUntouched
        /\ (~hasPix /\ hasSky /\ refimage.given) =>
             outcome \in {"returned", "IndexError"}

\* the file holds the whole table: zeros, ones, X, Y in front of the columns
\* it had, one row for every AST
FileComplete ==
  /\ file.colnames = <<"zeros", "ones", "X", "Y">> \o AstCols
  /\ Len(file.rows) = file.nrows
  /\ \A k \in DOMAIN file.rows :
       /\ file.rows[k].zeros = 0
       /\ file.rows[k].ones = 1
       /\ file.rows[k].ast = k

\* C8 as amended: when the filter removes every catalog row and there is at
\* least one AST row the call fails (IndexError) and the file is left as it
\* was; with no AST row the call goes through and rewrites the file (the
\* four columns, no rows).  The file is rewritten whole or not at all.
C8_EmptyFilterFails ==
  (NbrCall /\ pc /= "start") =>
    /\ (FilterReached /\ Len(x_positions) = 0 /\ file.nrows >= 1) =>
         (outcome = "IndexError" /\ FileUntouched)
    /\ (FilterReached /\ Len(x_positions) = 0 /\ file.nrows = 0) =>
         (outcome = "returned" /\ FileComplete)
    /\ IF outcome = "returned" THEN FileComplete ELSE FileUntouched

\* every catalog row filtered out, AST rows to place
C8_Witness ==
  /\ FilterReached
  /\ Len(catalog.xy) >= 2
  /\ Len(x_positions) = 0
  /\ file.nrows >= 1
  /\ outcome = "IndexError"

\* C8 as stated: whenever the filter removes every catalog row the call
\* fails, for any number of AST rows, and the file is left as it was.
C8_EmptyFilterAlwaysFails ==
  (FilterReached /\ Len(x_positions) = 0) =>
    (outcome /= "returned" /\ FileUntouched)
====
